---- MODULE Spec2Model ----
(***************************************************************************)
(* SmartExpenseTracker: the data-access layer (apiService), the Settings   *)
(* save flow and the values they exchange with the remote record stores.   *)
(*                                                                         *)
(* JavaScript values are tagged records: a number is Num(n) or NaN, a      *)
(* string is a sequence of one-character strings, a date string is a       *)
(* record naming its form.  The remote stores (expenses, expense_budgets)  *)
(* are tables of rows; each request to them either answers or reports an   *)
(* error, which the handlers take as an input.                             *)
(***************************************************************************)
EXTENDS Integers, Sequences, FiniteSets, TLC

VARIABLES
    schema,           \* how the store keeps ids and serialises numeric columns
    expenses,         \* table 'expenses': sequence of rows, insertion order
    expense_budgets,  \* table 'expense_budgets': set of rows, key (user_id, category)
    last,             \* the operation that ran last: name, kind of result, store calls
    isSaving,         \* Settings: useState(false)
    saveStatus,       \* Settings: useState('idle')
    budgets,          \* the session's budgets list, the prop of Settings
    inflight,         \* Settings: the budgets of each handleSave awaiting onSaveAllBudgets
    timers,           \* Settings: pending setTimeout(() => setSaveStatus('idle'), 3000)
    arrays,           \* the arrays of a Dashboard render, by name: the props expenses and
                      \* budgets, and the arrays the render derives from them
    clock,            \* the browser: current month and year, time zone, locale
    view,             \* Dashboard: the totals of the last render
    csv,              \* Settings: the content of the last exported file
    editingExpense,   \* Dashboard: useState<Expense | null>(null), the draft of the dialog
    isUpdating,       \* Dashboard: useState(false)
    requests,         \* Dashboard: the onUpdateExpense calls awaiting their result
    running,          \* two updateExpense calls of one session running side by side
    arrivals          \* the update requests of those calls, in the order the store got them

vars ==
    << schema, expenses, expense_budgets, last, isSaving, saveStatus, budgets,
       inflight, timers, arrays, clock, view, csv, editingExpense, isUpdating,
       requests, running, arrivals >>

-----------------------------------------------------------------------------
(* Bounds *)

\* rows the signed-in user may hold in 'expenses'
MaxRows == 2

\* reset timers of Settings that may be pending at once
MaxTimers == 2

-----------------------------------------------------------------------------
(* JavaScript values *)

Num(n) == [t |-> "num", n |-> n]
NaN == [t |-> "nan"]
Null == "null"

DigitChars == <<"0", "1", "2", "3", "4", "5", "6", "7", "8", "9">>
IsDigit(c) == \E i \in 1..10 : DigitChars[i] = c
DigitVal(c) == (CHOOSE i \in 1..10 : DigitChars[i] = c) - 1

RECURSIVE DigitPrefix(_)
DigitPrefix(s) ==
    IF s = <<>> \/ ~IsDigit(Head(s)) THEN <<>>
    ELSE <<Head(s)>> \o DigitPrefix(Tail(s))

RECURSIVE DigitsToNat(_, _)
DigitsToNat(ds, acc) ==
    IF ds = <<>> THEN acc
    ELSE DigitsToNat(Tail(ds), acc * 10 + DigitVal(Head(ds)))

RECURSIVE NatToDigits(_)
NatToDigits(n) ==
    IF n < 10 THEN <<DigitChars[n + 1]>>
    ELSE NatToDigits(n \div 10) \o <<DigitChars[(n % 10) + 1]>>

\* Number.prototype.toString() of an integer
NumberToString(n) == IF n < 0 THEN <<"-">> \o NatToDigits(-n) ELSE NatToDigits(n)

\* parseInt(s, 10): optional sign, then the longest digit prefix; NaN without one
parseInt(s) ==
    LET signed == s # <<>> /\ Head(s) \in {"-", "+"}
        body == IF signed THEN Tail(s) ELSE s
        ds == DigitPrefix(body)
    IN  IF ds = <<>> THEN NaN
        ELSE IF signed /\ Head(s) = "-" THEN Num(0 - DigitsToNat(ds, 0))
        ELSE Num(DigitsToNat(ds, 0))

\* a value of a numeric column as the store's response carries it
Str(s) == [t |-> "str", s |-> s]
WireNum(n) == IF schema.numWire = "str" THEN Str(NumberToString(n)) ELSE Num(n)

\* parseFloat(x): x is converted to a string and its numeric prefix is read
\* (amounts and limits are whole numbers here)
parseFloat(x) == IF x.t = "num" THEN parseInt(NumberToString(x.n)) ELSE parseInt(x.s)

\* id.toString() of a key the store returned
IdToString(id) == IF id.t = "num" THEN NumberToString(id.n) ELSE id.s

-----------------------------------------------------------------------------
(* Date strings *)

Undefined == [k |-> "undefined"]
EmptyString == [k |-> "empty"]
BadDate == [k |-> "bad"]                               \* e.g. 'not-a-date'
Ymd(y, m, d) == [k |-> "ymd", y |-> y, m |-> m, d |-> d]   \* 'YYYY-MM-DD'
Iso(y, m, d) == [k |-> "iso", y |-> y, m |-> m, d |-> d]   \* 'YYYY-MM-DDT00:00:00.000Z'

\* a string in a condition: undefined and '' are falsy
Truthy(s) == s.k \notin {"undefined", "empty"}

\* new Date(s)
NewDate(s) ==
    IF s.k \in {"ymd", "iso"} THEN [valid |-> TRUE, y |-> s.y, m |-> s.m, d |-> s.d]
    ELSE [valid |-> FALSE]

\* isNaN(dateObj.getTime())
IsInvalidDate(dt) == ~dt.valid

\* dateObj.toISOString(), for a valid date (it throws RangeError otherwise)
toISOString(dt) == Iso(dt.y, dt.m, dt.d)

DateKey(s) == s.y * 10000 + s.m * 100 + s.d

-----------------------------------------------------------------------------
(* The catalog *)

Budget(c, n) == [category |-> c, limit |-> Num(n)]

DEFAULT_BUDGETS ==
    << Budget("Grocery", 10000), Budget("Household Help", 5000),
       Budget("Medical", 2000), Budget("Shopping", 5000),
       Budget("Transport", 3000), Budget("Education", 5000),
       Budget("Entertainment", 3000), Budget("Medical Insurance", 2000),
       Budget("Property Tax", 1000), Budget("Electricity", 3000),
       Budget("Mobile", 1000), Budget("Home Maintenance", 2000),
       Budget("Petrol", 5000), Budget("Food & Drinks", 5000) >>

CatalogCategories == {DEFAULT_BUDGETS[i].category : i \in 1..Len(DEFAULT_BUDGETS)}

-----------------------------------------------------------------------------
(* The remote stores *)

\* the user getUser() answers with, or Null without a session
Users == {"u1"}
OtherUser == "u2"

\* The two shapes the stores come in: bigint keys with numbers in the response,
\* or text keys with numeric columns serialised as strings.
Schemas ==
    { [idKind |-> "num", numWire |-> "num"], [idKind |-> "str", numWire |-> "str"] }

\* the i-th key the store hands out
StoreKey(kind, i) ==
    IF kind = "num" THEN Num(i)
    ELSE IF i = 1 THEN Str(<<"a", "b">>)
    ELSE IF i = 3 THEN Str(<<"0", "7">>)
    ELSE Str(NumberToString(i - 1))

\* default of column created_at
StoreNow == Iso(2024, 1, 5)

\* a record of another user, present from the start
SeedRow(kind) ==
    [ id |-> StoreKey(kind, 1), user_id |-> OtherUser, amount |-> 40,
      category |-> "Petrol", description |-> <<"g", "a", "s">>,
      created_at |-> Iso(2024, 1, 2) ]

SeedBudgetRow == [user_id |-> OtherUser, category |-> "Grocery", budget_amount |-> 1]

\* what a request to a store can answer
Replies == {"ok", "error"}

OwnRows(table, user) == SelectSeq(table, LAMBDA r : r.user_id = user)

\* the first key no row of the table holds
FreshKey(table) ==
    LET used == {table[i].id : i \in 1..Len(table)}
        i == CHOOSE k \in 1..(Len(table) + 1) :
                /\ StoreKey(schema.idKind, k) \notin used
                /\ \A j \in 1..(k - 1) : StoreKey(schema.idKind, j) \in used
    IN  StoreKey(schema.idKind, i)

\* .select('id, amount, category, description, created_at') of one row
WireRow(r) ==
    [ id |-> r.id, amount |-> WireNum(r.amount), category |-> r.category,
      description |-> r.description, created_at |-> r.created_at ]

RECURSIVE InsertByCreatedAt(_, _)
InsertByCreatedAt(r, s) ==
    IF s = <<>> THEN <<r>>
    ELSE IF DateKey(r.created_at) =< DateKey(Head(s).created_at) THEN <<r>> \o s
    ELSE <<Head(s)>> \o InsertByCreatedAt(r, Tail(s))

\* .order('created_at', { ascending: true })
RECURSIVE OrderByCreatedAt(_)
OrderByCreatedAt(s) ==
    IF s = <<>> THEN <<>>
    ELSE InsertByCreatedAt(Head(s), OrderByCreatedAt(Tail(s)))

\* .from('expenses').select(...).eq('user_id', user).order('created_at')
SelectExpenses(table, user) ==
    LET rows == OrderByCreatedAt(OwnRows(table, user))
    IN  [i \in 1..Len(rows) |-> WireRow(rows[i])]

\* the filter without .eq('user_id', user.id)
RowMatches_AnyUser(r, key, user) == r.id = key

\* .eq('id', key).eq('user_id', user): keys are compared in the representation given
RowMatches(r, key, user) == r.id = key /\ r.user_id = user

\* a row replaced by the payload, the columns it lacks back at their defaults
ApplyPayload_Replaces(r, p) ==
    [ f \in DOMAIN r |->
        IF f \in DOMAIN p THEN (IF f = "amount" THEN p[f].n ELSE p[f])
        ELSE IF f \in {"id", "user_id"} THEN r[f]
        ELSE IF f = "amount" THEN 0
        ELSE IF f = "created_at" THEN StoreNow
        ELSE IF f = "category" THEN "" ELSE <<>> ]

\* a row after the columns of the payload are written
ApplyPayload(r, p) ==
    [ f \in DOMAIN r |->
        IF f \in DOMAIN p THEN (IF f = "amount" THEN p[f].n ELSE p[f]) ELSE r[f] ]

\* .from('expenses').update(p).eq('id', key).eq('user_id', user): the table afterwards
UpdateWhere(table, p, key, user) ==
    [ i \in 1..Len(table) |->
        IF RowMatches(table[i], key, user) THEN ApplyPayload(table[i], p) ELSE table[i] ]

\* ... .select(...): the rows the update returns
UpdatedRows(table, p, key, user) ==
    LET hit == SelectSeq(UpdateWhere(table, p, key, user),
                         LAMBDA r : RowMatches(r, key, user))
    IN  [i \in 1..Len(hit) |-> WireRow(hit[i])]

\* .upsert(rows, { onConflict: 'user_id,category' })
Upsert(table, rows) ==
    { r \in table : ~\E n \in rows : n.user_id = r.user_id /\ n.category = r.category }
        \cup rows

Call(table, verb, arg) == [table |-> table, verb |-> verb, arg |-> arg]

-----------------------------------------------------------------------------
(* apiService *)

Value(v) == [kind |-> "value", val |-> v]
ReturnNull == [kind |-> "null"]
ReturnVoid == [kind |-> "void"]
Throw(e) == [kind |-> "throw", err |-> e]

\* what an operation did: its result, the requests it sent, the tables afterwards
Outcome(ret, calls, exp, bud) ==
    [ret |-> ret, calls |-> calls, expenses |-> exp, expense_budgets |-> bud]

\* a returned row as an Expense
NormalizeRow(w) ==
    [ id |-> IdToString(w.id), amount |-> parseFloat(w.amount),
      category |-> w.category, description |-> w.description, date |-> w.created_at ]

defaultState == [expenses |-> <<>>, budgets |-> DEFAULT_BUDGETS]

\* DEFAULT_BUDGETS.map(def => found ? {category, limit: parseFloat(...)} : def)
MergeBudgets(dbBudgets) ==
    [ i \in 1..Len(DEFAULT_BUDGETS) |->
        LET def == DEFAULT_BUDGETS[i]
            hits == {b \in dbBudgets : b.category = def.category}
        IN  IF hits # {}
            THEN LET found == CHOOSE b \in hits : TRUE
                 IN  [ category |-> found.category,
                       limit |-> parseFloat(WireNum(found.budget_amount)) ]
            ELSE def ]

\* the data of a query: its rows, or null when the query reported an error
Data(rows) == [null |-> FALSE, rows |-> rows]
NullData == [null |-> TRUE]

\* finalBudgets without the merge onto the catalog: the stored rows as they come
finalBudgets_StoredOnly(dbBudgets) ==
    IF ~dbBudgets.null /\ dbBudgets.rows # {}
    THEN LET RECURSIVE AsList(_)
             AsList(rows) ==
                 IF rows = {} THEN <<>>
                 ELSE LET b == CHOOSE x \in rows : TRUE
                      IN  <<[category |-> b.category,
                             limit |-> parseFloat(WireNum(b.budget_amount))]>>
                              \o AsList(rows \ {b})
         IN  AsList(dbBudgets.rows)
    ELSE DEFAULT_BUDGETS

\* the budgets fetchState returns, dbBudgets being the data of the budget query
finalBudgets(dbBudgets) ==
    IF ~dbBudgets.null /\ dbBudgets.rows # {} THEN MergeBudgets(dbBudgets.rows)
    ELSE DEFAULT_BUDGETS

\* fetchState with the budget query ahead of the check of the expense query
fetchState_BudgetsFirst(exp, bud, user, expReply, budReply) ==
    IF user = Null THEN Outcome(Value(defaultState), <<>>, exp, bud)
    ELSE LET dbBudgets == IF budReply = "error" THEN NullData
                          ELSE Data({b \in bud : b.user_id = user})
             dbExpenses == IF expReply = "error" THEN <<>> ELSE SelectExpenses(exp, user)
         IN  Outcome(
                Value([ expenses |-> [i \in 1..Len(dbExpenses) |->
                                         NormalizeRow(dbExpenses[i])],
                        budgets |-> finalBudgets(dbBudgets) ]),
                <<Call("expenses", "select", user)>>,
                exp, bud)

fetchState(exp, bud, user, expReply, budReply) ==
    IF user = Null THEN Outcome(Value(defaultState), <<>>, exp, bud)
    ELSE IF expReply = "error"
    THEN Outcome(Value(defaultState), <<Call("expenses", "select", user)>>,
                 exp, bud)
    ELSE LET dbExpenses == SelectExpenses(exp, user)
             dbBudgets == IF budReply = "error" THEN NullData
                          ELSE Data({b \in bud : b.user_id = user})
         IN  Outcome(
                Value([ expenses |-> [i \in 1..Len(dbExpenses) |->
                                         NormalizeRow(dbExpenses[i])],
                        budgets |-> finalBudgets(dbBudgets) ]),
                <<Call("expenses", "select", user),
                  Call("expense_budgets", "select", user)>>,
                exp, bud)

\* insertData of saveExpense
insertData(user, expense, specificDate) ==
    LET base == [ user_id |-> user, amount |-> expense.amount,
                  category |-> expense.category, description |-> expense.description ]
    IN  IF Truthy(specificDate)
        THEN base @@ [created_at |-> toISOString(NewDate(specificDate))]
        ELSE base

\* the row the store makes of insertData
InsertedRow(table, data) ==
    [ id |-> FreshKey(table), user_id |-> data.user_id, amount |-> data.amount.n,
      category |-> data.category, description |-> data.description,
      created_at |-> IF "created_at" \in DOMAIN data THEN data.created_at ELSE StoreNow ]

saveExpense(exp, bud, user, expense, specificDate, reply) ==
    IF user = Null THEN Outcome(ReturnNull, <<>>, exp, bud)
    ELSE IF Truthy(specificDate) /\ IsInvalidDate(NewDate(specificDate))
    THEN Outcome(Throw("RangeError"), <<>>, exp, bud)
    ELSE LET data == insertData(user, expense, specificDate)
             call == <<Call("expenses", "insert", data)>>
         IN  IF reply = "error"
             THEN Outcome(ReturnNull, call, exp, bud)
             ELSE LET row == InsertedRow(exp, data)
                  IN  Outcome(Value(NormalizeRow(WireRow(row))), call,
                              Append(exp, row), bud)

\* dbUpdates with every column written, a missing field as its default
dbUpdates_AllColumns(updates) ==
    LET given(f, dflt) == IF f \in DOMAIN updates THEN updates[f] ELSE dflt
        plain == [ amount |-> given("amount", Num(0)),
                   category |-> given("category", "Grocery"),
                   description |-> given("description", <<>>) ]
    IN  IF /\ "date" \in DOMAIN updates
           /\ Truthy(updates.date)
           /\ ~IsInvalidDate(NewDate(updates.date))
        THEN plain @@ [created_at |-> toISOString(NewDate(updates.date))]
        ELSE plain

\* dbUpdates that gives up the whole update on a date it cannot parse
dbUpdates_BadDateDropsAll(updates) ==
    LET plain == [ f \in DOMAIN updates \cap {"amount", "category", "description"} |->
                     updates[f] ]
    IN  IF "date" \in DOMAIN updates /\ Truthy(updates.date)
        THEN IF IsInvalidDate(NewDate(updates.date)) THEN [f \in {} |-> 0]
             ELSE plain @@ [created_at |-> toISOString(NewDate(updates.date))]
        ELSE plain

\* dbUpdates of updateExpense
dbUpdates(updates) ==
    LET plain == [ f \in DOMAIN updates \cap {"amount", "category", "description"} |->
                     updates[f] ]
    IN  IF /\ "date" \in DOMAIN updates
           /\ Truthy(updates.date)
           /\ ~IsInvalidDate(NewDate(updates.date))
        THEN plain @@ [created_at |-> toISOString(NewDate(updates.date))]
        ELSE plain

\* the id always sent as the string it came as
filterId_AlwaysString(id) == Str(id)

\* filterId of updateExpense
filterId(id) ==
    LET numericId == parseInt(id)
    IN  IF numericId = NaN THEN Str(id)
        ELSE IF id # NumberToString(numericId.n) THEN Str(id)
        ELSE numericId

\* no second request
RetriesWith_Never(key) == FALSE

\* whether updateExpense sends the second request after an empty first answer
RetriesWith(key) == key.t = "num"

updateExpense(exp, bud, user, id, updates, reply, retryReply) ==
    IF user = Null THEN Outcome(ReturnNull, <<>>, exp, bud)
    ELSE
    LET p == dbUpdates(updates)
        key == filterId(id)
        first == Call("expenses", "update", [payload |-> p, id |-> key, user_id |-> user])
        data == UpdatedRows(exp, p, key, user)
        after == UpdateWhere(exp, p, key, user)
    IN  IF reply = "error"
        THEN Outcome(ReturnNull, <<first>>, exp, bud)
        ELSE IF Len(data) > 0
        THEN Outcome(Value(NormalizeRow(data[1])), <<first>>, after, bud)
        ELSE IF RetriesWith(key)
        THEN LET second == Call("expenses", "update",
                                [payload |-> p, id |-> Str(id), user_id |-> user])
                 retryData == UpdatedRows(after, p, Str(id), user)
                 afterRetry == UpdateWhere(after, p, Str(id), user)
             IN  IF retryReply = "error"
                 THEN Outcome(ReturnNull, <<first, second>>, after, bud)
                 ELSE IF Len(retryData) > 0
                 THEN Outcome(Value(NormalizeRow(retryData[1])), <<first, second>>,
                              afterRetry, bud)
                 ELSE Outcome(ReturnNull, <<first, second>>, afterRetry, bud)
        ELSE Outcome(ReturnNull, <<first>>, after, bud)

\* saveBudgets that does not look at the error of the upsert
saveBudgets_Swallows(exp, bud, user, list, reply) ==
    IF user = Null THEN Outcome(ReturnVoid, <<>>, exp, bud)
    ELSE LET rows == { [ user_id |-> user, category |-> list[i].category,
                         budget_amount |-> list[i].limit.n ] : i \in 1..Len(list) }
             call == <<Call("expense_budgets", "upsert", rows)>>
         IN  IF reply = "error" THEN Outcome(ReturnVoid, call, exp, bud)
             ELSE Outcome(ReturnVoid, call, exp, Upsert(bud, rows))

\* budgetData of saveBudgets
budgetData(user, list) ==
    { [ user_id |-> user, category |-> list[i].category,
        budget_amount |-> list[i].limit.n ] : i \in 1..Len(list) }

saveBudgets(exp, bud, user, list, reply) ==
    IF user = Null THEN Outcome(ReturnVoid, <<>>, exp, bud)
    ELSE LET rows == budgetData(user, list)
             call == <<Call("expense_budgets", "upsert", rows)>>
         IN  IF reply = "error"
             THEN Outcome(Throw("StoreError"), call, exp, bud)
             ELSE Outcome(ReturnVoid, call, exp, Upsert(bud, rows))

deleteBudget(exp, bud, user, category, reply) ==
    IF user = Null THEN Outcome(ReturnVoid, <<>>, exp, bud)
    ELSE Outcome(ReturnVoid,
                 <<Call("expense_budgets", "delete", [user_id |-> user, category |-> category])>>,
                 exp,
                 IF reply = "error" THEN bud
                 ELSE { b \in bud :
                          ~(b.user_id = user /\ b.category = category) })

clearUserData(exp, bud, user, reply, budReply) ==
    IF user = Null THEN Outcome(ReturnVoid, <<>>, exp, bud)
    ELSE Outcome(ReturnVoid,
                 <<Call("expenses", "delete", user), Call("expense_budgets", "delete", user)>>,
                 IF reply = "error" THEN exp
                 ELSE SelectSeq(exp, LAMBDA r : r.user_id # user),
                 IF budReply = "error" THEN bud
                 ELSE {b \in bud : b.user_id # user})

-----------------------------------------------------------------------------
(* Inputs *)

\* what getUser() answers
Sessions == Users \cup {Null}

ExpenseInputs ==
    { [amount |-> Num(100), category |-> "Grocery", description |-> <<"t", "e", "a">>] }

DateInputs == {Undefined, EmptyString, BadDate, Ymd(2024, 3, 9)}

NoUpdates == [f \in {} |-> 0]

PartialUpdates ==
    { NoUpdates,
      [amount |-> Num(75)],
      [amount |-> Num(75), date |-> BadDate],
      [date |-> BadDate],
      [date |-> Ymd(2024, 3, 9)],
      [amount |-> Num(75), category |-> "Medical", description |-> <<"f", "i", "x">>,
       date |-> Ymd(2024, 3, 9)],
      [amount |-> Num(75), date |-> EmptyString] }

IdInputs == { <<"1">>, <<"2">>, <<"0", "7">>, <<"a", "b">>, <<"9">> }

BudgetInputs ==
    { <<Budget("Grocery", 7000)>>,
      <<Budget("Transport", 0), Budget("Rent", 900)>>,
      <<Budget("Grocery", 8000), Budget("Petrol", 5000)>> }

CategoryInputs == {"Grocery", "Rent"}

-----------------------------------------------------------------------------
(* The operations as steps *)

\* the record kept of the operation that ran
\* (err: whether a request of the operation was answered with an error)
Ran(op, user, o, note, err) ==
    [ op |-> op, user |-> user, ret |-> o.ret.kind, ncalls |-> Len(o.calls),
      note |-> note, err |-> err ]

\* the Dashboard and the export are not part of the step
DashboardUnchanged ==
    UNCHANGED <<arrays, clock, view, csv, editingExpense, isUpdating, requests,
                running, arrivals>>

UiUnchanged ==
    /\ UNCHANGED <<isSaving, saveStatus, budgets, inflight, timers>>
    /\ DashboardUnchanged

\* the tables after an operation
Stores(o) ==
    /\ expenses' = o.expenses
    /\ expense_budgets' = o.expense_budgets
    /\ UNCHANGED schema

\* the answers a request can get; a request that is not sent gets none
RepliesIf(sent) == IF sent THEN Replies ELSE {"ok"}

\* the arrays a Dashboard render reads and makes
ArrayNames == {"expenses", "budgets", "filteredExpenses", "categoryBreakdown", "history"}

NoArrays == [a \in ArrayNames |-> <<>>]

\* before the first render
NoView == [rendered |-> FALSE]

\* a browser in UTC with the en-US locale, in March 2024 (months count from 0)
DefaultClock == [month |-> 2, year |-> 2024, zone |-> "utc", locale |-> "en-US"]

\* no Dashboard is mounted, nothing was exported, no updateExpense is running
InitDashboard ==
    /\ arrays = NoArrays
    /\ clock = DefaultClock
    /\ view = NoView
    /\ csv = <<>>
    /\ editingExpense = <<>>
    /\ isUpdating = FALSE
    /\ requests = <<>>
    /\ running = <<>>
    /\ arrivals = <<>>

\* the stores and Settings at the start
InitStores ==
    /\ schema \in Schemas
    /\ expenses = <<SeedRow(schema.idKind)>>
    /\ expense_budgets = {SeedBudgetRow}
    /\ last = [ op |-> "none", user |-> Null, ret |-> "none", ncalls |-> 0,
                note |-> "", err |-> FALSE ]
    /\ isSaving = FALSE
    /\ saveStatus = "idle"
    /\ budgets = DEFAULT_BUDGETS
    /\ inflight = <<>>
    /\ timers = 0

Init == InitStores /\ InitDashboard

FetchNote(user, expReply, budReply) ==
    IF user # Null /\ expReply = "ok" /\ budReply = "error" THEN "budget-error" ELSE ""

FetchState ==
    \E user \in Sessions :
    \E expReply \in RepliesIf(user # Null) :
    \E budReply \in RepliesIf(user # Null /\ expReply = "ok") :
        \E o \in {fetchState(expenses, expense_budgets, user, expReply, budReply)} :
            /\ last' = Ran("fetchState", user, o, FetchNote(user, expReply, budReply),
                           "error" \in {expReply, budReply})
            /\ Stores(o)
            /\ UiUnchanged

DateNote(d) == IF Truthy(d) /\ IsInvalidDate(NewDate(d)) THEN "bad-date" ELSE ""

SaveExpense ==
    \E user \in Sessions, e \in ExpenseInputs, d \in DateInputs :
    \E reply \in RepliesIf(user # Null /\ DateNote(d) = "") :
        \E o \in {saveExpense(expenses, expense_budgets, user, e, d, reply)} :
            /\ Len(OwnRows(o.expenses, user)) =< MaxRows
            /\ last' = Ran("saveExpense", user, o, DateNote(d), reply = "error")
            /\ Stores(o)
            /\ UiUnchanged

UpdateNote(updates) ==
    IF DOMAIN updates = {"amount"} THEN "amount-only"
    ELSE IF "date" \in DOMAIN updates THEN DateNote(updates.date)
    ELSE ""

\* whether updateExpense sends its second request, the first having been answered
SendsRetry(exp, user, id, updates) ==
    /\ RetriesWith(filterId(id))
    /\ Len(UpdatedRows(exp, dbUpdates(updates), filterId(id), user)) = 0

UpdateExpense ==
    \E user \in Sessions, id \in IdInputs, updates \in PartialUpdates :
    \E reply \in RepliesIf(user # Null) :
    \E retryReply \in RepliesIf(user # Null /\ reply = "ok"
                                  /\ SendsRetry(expenses, user, id, updates)) :
        \E o \in {updateExpense(expenses, expense_budgets, user, id, updates,
                               reply, retryReply)} :
            /\ last' = Ran("updateExpense", user, o, UpdateNote(updates),
                           "error" \in {reply, retryReply})
            /\ Stores(o)
            /\ UiUnchanged

SaveBudgets ==
    \E user \in Sessions, b \in BudgetInputs :
    \E reply \in RepliesIf(user # Null) :
        \E o \in {saveBudgets(expenses, expense_budgets, user, b, reply)} :
            /\ last' = Ran("saveBudgets", user, o, "", reply = "error")
            /\ Stores(o)
            /\ UiUnchanged

DeleteBudget ==
    \E user \in Sessions, c \in CategoryInputs :
    \E reply \in RepliesIf(user # Null) :
        \E o \in {deleteBudget(expenses, expense_budgets, user, c, reply)} :
            /\ last' = Ran("deleteBudget", user, o, "", reply = "error")
            /\ Stores(o)
            /\ UiUnchanged

ClearUserData ==
    \E user \in Sessions :
    \E reply \in RepliesIf(user # Null), budReply \in RepliesIf(user # Null) :
        \E o \in {clearUserData(expenses, expense_budgets, user, reply, budReply)} :
            /\ last' = Ran("clearUserData", user, o, "", "error" \in {reply, budReply})
            /\ Stores(o)
            /\ UiUnchanged

\* the expense side of apiService
Next == FetchState \/ SaveExpense \/ UpdateExpense \/ ClearUserData

Spec == Init /\ [][Next]_vars

\* the budget side of apiService
NextBudgets == FetchState \/ SaveBudgets \/ DeleteBudget \/ ClearUserData

SpecBudgets == Init /\ [][NextBudgets]_vars

-----------------------------------------------------------------------------
(* Settings *)

ValueInputs == { <<"7", "0", "0", "0">>, <<>>, <<"x">> }

BudgetCategoryInputs == {"Grocery", "Transport"}

\* the parent's onUpdateBudget: the limit of one category of the session's list
onUpdateBudget(list, category, limit) ==
    [ i \in 1..Len(list) |->
        IF list[i].category = category THEN [list[i] EXCEPT !.limit = limit] ELSE list[i] ]

\* the budgets after handleInputChange(category, value)
InputChange(list, category, value) ==
    LET numValue == parseInt(value)
    IN  IF numValue # NaN THEN onUpdateBudget(list, category, numValue)
        ELSE IF value = <<>> THEN onUpdateBudget(list, category, Num(0))
        ELSE list

HandleInputChange ==
    \E category \in BudgetCategoryInputs, value \in ValueInputs :
        /\ budgets' = InputChange(budgets, category, value)
        /\ saveStatus' = IF saveStatus # "idle" THEN "idle" ELSE saveStatus
        /\ last' = [ op |-> "handleInputChange", user |-> Null, ret |-> "void", ncalls |-> 0,
                     note |-> "", err |-> FALSE ]
        /\ UNCHANGED <<schema, expenses, expense_budgets, isSaving, inflight, timers>>
        /\ DashboardUnchanged

\* the parent's onSaveAllBudgets: it hands the session's budgets to saveBudgets
onSaveAllBudgets(exp, bud, user, list, reply) == saveBudgets(exp, bud, user, list, reply)

\* handleSave up to its await; the button is disabled while isSaving
HandleSave ==
    /\ ~isSaving
    /\ timers < MaxTimers
    /\ isSaving' = TRUE
    /\ saveStatus' = "idle"
    /\ inflight' = Append(inflight, budgets)
    /\ last' = [ op |-> "handleSave", user |-> Null, ret |-> "pending", ncalls |-> 0,
                 note |-> "", err |-> FALSE ]
    /\ UNCHANGED <<schema, expenses, expense_budgets, budgets, timers>>
    /\ DashboardUnchanged

\* saveStatus after the await of handleSave
StatusAfter(o) == IF o.ret.kind = "throw" THEN "error" ELSE "success"

SaveNote(user, reply) ==
    IF user = Null THEN "no-upsert"
    ELSE IF reply = "error" THEN "upsert-error" ELSE "upsert-ok"

\* handleSave from its await on: onSaveAllBudgets settles
HandleSaveSettles ==
    /\ inflight # <<>>
    /\ \E user \in Sessions :
       \E reply \in RepliesIf(user # Null) :
        \E o \in {onSaveAllBudgets(expenses, expense_budgets, user, Head(inflight), reply)} :
            /\ saveStatus' = StatusAfter(o)
            /\ timers' = IF o.ret.kind = "throw" THEN timers ELSE timers + 1
            /\ isSaving' = FALSE
            /\ inflight' = Tail(inflight)
            /\ last' = Ran("handleSave", user, o, SaveNote(user, reply), reply = "error")
            /\ Stores(o)
            /\ UNCHANGED budgets
            /\ DashboardUnchanged

\* a reset timer of handleSave fires
TimerFires ==
    /\ timers > 0
    /\ timers' = timers - 1
    /\ saveStatus' = "idle"
    /\ last' = [ op |-> "timer", user |-> Null, ret |-> "void", ncalls |-> 0,
                 note |-> "", err |-> FALSE ]
    /\ UNCHANGED <<schema, expenses, expense_budgets, isSaving, budgets, inflight>>
    /\ DashboardUnchanged

NextSettings == HandleInputChange \/ HandleSave \/ HandleSaveSettles \/ TimerFires

SpecSettings == Init /\ [][NextSettings]_vars

-----------------------------------------------------------------------------
(* Dashboard: the aggregation *)

\* a + b and a - b of numbers
Plus(a, b) == IF a = NaN \/ b = NaN THEN NaN ELSE Num(a.n + b.n)
Minus(a, b) == IF a = NaN \/ b = NaN THEN NaN ELSE Num(a.n - b.n)

RECURSIVE Gcd(_, _)
Gcd(a, b) == IF b = 0 THEN a ELSE Gcd(b, a % b)

Abs(n) == IF n < 0 THEN 0 - n ELSE n

\* the quotient n / d (d > 0) as a fraction in lowest terms
Ratio(n, d) ==
    LET g == Gcd(Abs(n), d)
    IN  [t |-> "num", num |-> n \div g, den |-> d \div g]

\* where local time stands against UTC
Zones == {"west", "utc", "east"}

DaysIn(y, m) ==
    IF m = 2 THEN (IF y % 4 = 0 /\ (y % 100 # 0 \/ y % 400 = 0) THEN 29 ELSE 28)
    ELSE IF m \in {4, 6, 9, 11} THEN 30 ELSE 31

\* the local calendar date of a Date: a date string without an offset is midnight
\* UTC, which west of UTC is still the evening of the day before
LocalDate(dt, zone) ==
    IF zone # "west" THEN [y |-> dt.y, m |-> dt.m, d |-> dt.d]
    ELSE IF dt.d > 1 THEN [y |-> dt.y, m |-> dt.m, d |-> dt.d - 1]
    ELSE IF dt.m > 1 THEN [y |-> dt.y, m |-> dt.m - 1, d |-> DaysIn(dt.y, dt.m - 1)]
    ELSE [y |-> dt.y - 1, m |-> 12, d |-> 31]

\* d.getMonth() (from 0) and d.getFullYear(), NaN for an invalid Date
getMonth(dt, zone) == IF dt.valid THEN Num(LocalDate(dt, zone).m - 1) ELSE NaN
getFullYear(dt, zone) == IF dt.valid THEN Num(LocalDate(dt, zone).y) ELSE NaN

\* the callback of expenses.filter
InCurrentMonth(e, c) ==
    LET d == NewDate(e.date)
    IN  getMonth(d, c.zone) = Num(c.month) /\ getFullYear(d, c.zone) = Num(c.year)

filteredExpenses(list, c) == SelectSeq(list, LAMBDA e : InCurrentMonth(e, c))

\* list.reduce((sum, e) => sum + e.amount, 0)
RECURSIVE SumAmounts(_)
SumAmounts(list) ==
    IF list = <<>> THEN Num(0)
    ELSE Plus(SumAmounts(SubSeq(list, 1, Len(list) - 1)), list[Len(list)].amount)

totalSpent(filtered) == SumAmounts(filtered)

\* budgets.reduce((sum, b) => sum + b.limit, 0)
RECURSIVE totalBudget(_)
totalBudget(list) ==
    IF list = <<>> THEN Num(0)
    ELSE Plus(totalBudget(SubSeq(list, 1, Len(list) - 1)), list[Len(list)].limit)

currentBalance(tb, ts) == Minus(tb, ts)

\* the percentage held at 100
Percentage_Capped(spent, limit) ==
    IF limit # NaN /\ limit.n > 0
    THEN (IF spent = NaN THEN NaN
          ELSE IF spent.n > limit.n THEN Ratio(100, 1) ELSE Ratio(spent.n * 100, limit.n))
    ELSE Ratio(0, 1)

\* budget.limit > 0 ? (spent / budget.limit) * 100 : 0
Percentage(spent, limit) ==
    IF limit # NaN /\ limit.n > 0
    THEN (IF spent = NaN THEN NaN ELSE Ratio(spent.n * 100, limit.n))
    ELSE Ratio(0, 1)

\* an entry whose spent counts every expense of the month
BreakdownEntry_AllExpenses(budget, filtered) ==
    LET spent == SumAmounts(filtered)
    IN  [ category |-> budget.category, limit |-> budget.limit, spent |-> spent,
          remaining |-> Minus(budget.limit, spent),
          percentage |-> Percentage(spent, budget.limit) ]

\* the callback of budgets.map
BreakdownEntry(budget, filtered) ==
    LET spent == SumAmounts(SelectSeq(filtered, LAMBDA e : e.category = budget.category))
    IN  [ category |-> budget.category, limit |-> budget.limit, spent |-> spent,
          remaining |-> Minus(budget.limit, spent),
          percentage |-> Percentage(spent, budget.limit) ]

\* a comparator that also puts a before b when they are equal
Before_OrEqual(a, b) == a # NaN /\ b # NaN /\ b.n - a.n =< 0

\* whether the comparator (a, b) => b.spent - a.spent puts a before b
Before(a, b) == a # NaN /\ b # NaN /\ b.n - a.n < 0

\* Array.prototype.sort is stable: the positions of an array in the order the
\* comparator gives, equal keys keeping their order
RECURSIVE InsertPosition(_, _, _)
InsertPosition(keys, i, order) ==
    IF order = <<>> THEN <<i>>
    ELSE IF Before(keys[i], keys[Head(order)]) THEN <<i>> \o order
    ELSE <<Head(order)>> \o InsertPosition(keys, i, Tail(order))

RECURSIVE SortOrder(_, _)
SortOrder(keys, n) ==
    IF n = 0 THEN <<>> ELSE InsertPosition(keys, n, SortOrder(keys, n - 1))

\* array.sort(compare): the array is sorted in place; keys[i] is what the
\* comparator reads of element i
ArraySort(h, a, keys) ==
    LET order == SortOrder(keys, Len(h[a]))
    IN  [h EXCEPT ![a] = [i \in 1..Len(h[a]) |-> h[a][order[i]]]]

\* array.slice(): a new array with the same elements
ArraySlice(h, src, dst) == [h EXCEPT ![dst] = h[src]]

\* array.reverse(): the array is reversed in place
ArrayReverse(h, a) == [h EXCEPT ![a] = [i \in 1..Len(h[a]) |-> h[a][Len(h[a]) + 1 - i]]]

\* the breakdown with budgets sorted in place before it is mapped
categoryBreakdown_SortsBudgets(h) ==
    LET keys == [i \in 1..Len(h.budgets) |->
                    BreakdownEntry(h.budgets[i], h.filteredExpenses).spent]
        sorted == ArraySort(h, "budgets", keys)
    IN  [sorted EXCEPT !.categoryBreakdown =
            [i \in 1..Len(sorted.budgets) |->
                BreakdownEntry(sorted.budgets[i], h.filteredExpenses)]]

\* budgets.map(...).sort((a, b) => b.spent - a.spent): map makes the array sorted
categoryBreakdown(h) ==
    LET mapped == [h EXCEPT !.categoryBreakdown =
                      [i \in 1..Len(h.budgets) |->
                          BreakdownEntry(h.budgets[i], h.filteredExpenses)]]
    IN  ArraySort(mapped, "categoryBreakdown",
                  [i \in 1..Len(h.budgets) |-> mapped.categoryBreakdown[i].spent])

\* filteredExpenses.slice().reverse(), the rows of the transaction history
TransactionHistory(h) ==
    ArrayReverse(ArraySlice(h, "filteredExpenses", "history"), "history")

\* one render of Dashboard: the arrays afterwards and the totals shown
Render(h, c) ==
    LET h1 == [h EXCEPT !.filteredExpenses = filteredExpenses(h.expenses, c)]
        ts == totalSpent(h1.filteredExpenses)
        tb == totalBudget(h1.budgets)
    IN  [ arrays |-> TransactionHistory(categoryBreakdown(h1)),
          view |-> [ rendered |-> TRUE, totalSpent |-> ts, totalBudget |-> tb,
                     currentBalance |-> currentBalance(tb, ts) ] ]

\* expenses shown at once
MaxShown == 3

Expense(id, n, c, text, date) ==
    [id |-> id, amount |-> Num(n), category |-> c, description |-> text, date |-> date]

ShownExpenseInputs ==
    { Expense(<<"1">>, 4000, "Grocery", <<"r", "i", "c", "e">>, Iso(2024, 3, 9)),
      Expense(<<"2">>, 3000, "Grocery", <<"o", "i", "l">>, Iso(2024, 3, 9)),
      Expense(<<"3">>, 5000, "Transport", <<"c", "a", "b">>, Iso(2024, 3, 9)),
      Expense(<<"4">>, 700, "grocery", <<"t", "e", "a">>, Iso(2024, 3, 1)),
      Expense(<<"5">>, 250, "Food, Drinks", <<"a", "\"", "b", "\"">>, Iso(2024, 2, 20)) }

ShownBudgetInputs ==
    { <<Budget("Grocery", 10000), Budget("Transport", 3000)>>,
      <<Budget("Medical", 2000), Budget("Transport", 3000), Budget("Shopping", 0),
        Budget("Grocery", 10000)>>,
      <<Budget("Grocery", 10000), Budget("Grocery", 500)>>,
      <<>> }

Clocks == [month : {1, 2}, year : {2024}, zone : Zones, locale : {"en-US"}]

\* a Dashboard is mounted with the session's budgets and no expenses yet
InitView ==
    /\ InitStores
    /\ arrays \in {[NoArrays EXCEPT !.budgets = b] : b \in ShownBudgetInputs}
    /\ clock \in Clocks
    /\ view = NoView
    /\ csv = <<>>
    /\ editingExpense = <<>>
    /\ isUpdating = FALSE
    /\ requests = <<>>
    /\ running = <<>>
    /\ arrivals = <<>>

\* the stores, Settings and the edit dialog are not part of the step
ViewOnly ==
    UNCHANGED <<schema, expenses, expense_budgets, last, isSaving, saveStatus, budgets,
                inflight, timers, clock, editingExpense, isUpdating, requests,
                running, arrivals>>

\* Dashboard renders with the props it has
RenderDashboard ==
    \E r \in {Render(arrays, clock)} :
        /\ arrays' = r.arrays
        /\ view' = r.view
        /\ UNCHANGED csv
        /\ ViewOnly

\* the session's list gains an expense and Dashboard renders with the new prop
ReceiveExpense ==
    /\ Len(arrays.expenses) < MaxShown
    /\ \E e \in ShownExpenseInputs :
       \E r \in {Render([arrays EXCEPT !.expenses = Append(@, e)], clock)} :
            /\ arrays' = r.arrays
            /\ view' = r.view
            /\ UNCHANGED csv
            /\ ViewOnly

NextView == RenderDashboard \/ ReceiveExpense

SpecView == InitView /\ [][NextView]_vars

-----------------------------------------------------------------------------
(* Two updateExpense calls of one session side by side *)

\* the record both calls are about, held by the signed-in user
OwnRow(kind) ==
    [ id |-> StoreKey(kind, 2), user_id |-> "u1", amount |-> 100,
      category |-> "Grocery", description |-> <<"t", "e", "a">>,
      created_at |-> StoreNow ]

RaceUpdates ==
    { [amount |-> Num(75)],
      [amount |-> Num(0), description |-> <<"f", "i", "x">>],
      [category |-> "Medical", date |-> Ymd(2024, 3, 9)],
      [amount |-> Num(75), date |-> BadDate] }

\* the record is in the store, no call is running
InitRace ==
    /\ schema \in Schemas
    /\ expenses = <<SeedRow(schema.idKind), OwnRow(schema.idKind)>>
    /\ expense_budgets = {SeedBudgetRow}
    /\ last = [ op |-> "none", user |-> Null, ret |-> "none", ncalls |-> 0,
                note |-> "", err |-> FALSE ]
    /\ isSaving = FALSE
    /\ saveStatus = "idle"
    /\ budgets = DEFAULT_BUDGETS
    /\ inflight = <<>>
    /\ timers = 0
    /\ InitDashboard

\* Settings and the Dashboard are not part of the step
RaceOnly ==
    UNCHANGED <<schema, expense_budgets, last, isSaving, saveStatus, budgets, inflight,
                timers, arrays, clock, view, csv, editingExpense, isUpdating, requests>>

\* updateExpense up to its first request: getUser, dbUpdates, filterId
Started(id, updates) ==
    [ id |-> id, p |-> dbUpdates(updates), key |-> filterId(id), pc |-> "first",
      sent |-> 1, reply |-> "none", data |-> <<>>, ret |-> "none" ]

\* the signed-in user calls updateExpense twice on the record without awaiting
ConcurrentUpdates ==
    /\ running = <<>>
    /\ \E u1 \in RaceUpdates, u2 \in RaceUpdates :
        running' = << Started(IdToString(OwnRow(schema.idKind).id), u1),
                      Started(IdToString(OwnRow(schema.idKind).id), u2) >>
    /\ UNCHANGED <<expenses, arrivals>>
    /\ RaceOnly

\* the key of the request a call has in flight
RequestKey(c) == IF c.pc = "first" THEN c.key ELSE Str(c.id)

\* the store gets the request a call has in flight, applies it and answers
StoreHandles(k) ==
    /\ k \in 1..Len(running)
    /\ running[k].pc \in {"first", "retry"}
    /\ \E reply \in Replies :
       \E c \in {running[k]} :
       \E key \in {RequestKey(running[k])} :
        /\ expenses' = IF reply = "ok" THEN UpdateWhere(expenses, c.p, key, "u1")
                       ELSE expenses
        /\ arrivals' = Append(arrivals,
                          [call |-> k, payload |-> c.p, key |-> key, reply |-> reply])
        /\ running' = [running EXCEPT
                          ![k].pc = IF c.pc = "first" THEN "first-answered"
                                    ELSE "retry-answered",
                          ![k].reply = reply,
                          ![k].data = IF reply = "ok"
                                      THEN UpdatedRows(expenses, c.p, key, "u1")
                                      ELSE <<>>]
    /\ RaceOnly

\* updateExpense from an await on: it returns, or sends the request again with
\* the id as a string
Continued(c) ==
    IF c.reply = "error" THEN [c EXCEPT !.pc = "done", !.ret = "null"]
    ELSE IF Len(c.data) > 0 THEN [c EXCEPT !.pc = "done", !.ret = "value"]
    ELSE IF c.pc = "first-answered" /\ RetriesWith(c.key)
    THEN [c EXCEPT !.pc = "retry", !.sent = 2]
    ELSE [c EXCEPT !.pc = "done", !.ret = "null"]

UpdateContinues(k) ==
    /\ k \in 1..Len(running)
    /\ running[k].pc \in {"first-answered", "retry-answered"}
    /\ running' = [running EXCEPT ![k] = Continued(running[k])]
    /\ UNCHANGED <<expenses, arrivals>>
    /\ RaceOnly

NextRace ==
    \/ ConcurrentUpdates
    \/ \E k \in {1, 2} : StoreHandles(k)
    \/ \E k \in {1, 2} : UpdateContinues(k)

SpecRace == InitRace /\ [][NextRace]_vars

-----------------------------------------------------------------------------
(* Settings: the CSV export *)

\* the characters of a category
Text(c) ==
    CASE c = "Grocery" -> <<"G", "r", "o", "c", "e", "r", "y">>
      [] c = "grocery" -> <<"g", "r", "o", "c", "e", "r", "y">>
      [] c = "Transport" -> <<"T", "r", "a", "n", "s", "p", "o", "r", "t">>
      [] c = "Food, Drinks" ->
            <<"F", "o", "o", "d", ",", " ", "D", "r", "i", "n", "k", "s">>
      [] c = "Food & Drinks" ->
            <<"F", "o", "o", "d", " ", "&", " ", "D", "r", "i", "n", "k", "s">>

\* s.replace(/"/g, '""')
RECURSIVE DoubleQuotes(_)
DoubleQuotes(s) ==
    IF s = <<>> THEN <<>>
    ELSE (IF Head(s) = "\"" THEN <<"\"", "\"">> ELSE <<Head(s)>>) \o DoubleQuotes(Tail(s))

\* `"${s.replace(/"/g, '""')}"`
Quoted(s) == <<"\"">> \o DoubleQuotes(s) \o <<"\"">>

TwoDigits(n) == IF n < 10 THEN <<"0">> \o NatToDigits(n) ELSE NatToDigits(n)

\* new Date(e.date).toLocaleDateString(): the local date in the form of the locale
toLocaleDateString(dt, c) ==
    IF ~dt.valid THEN <<"I", "n", "v", "a", "l", "i", "d", " ", "D", "a", "t", "e">>
    ELSE LET l == LocalDate(dt, c.zone)
         IN  IF c.locale = "en-US"
             THEN NatToDigits(l.m) \o <<"/">> \o NatToDigits(l.d) \o <<"/">>
                      \o NatToDigits(l.y)
             ELSE TwoDigits(l.d) \o <<"/">> \o TwoDigits(l.m) \o <<"/">>
                      \o NatToDigits(l.y)

\* one element of rows, joined with ','
CsvRow(userName, e, c) ==
    Quoted(userName) \o <<",">> \o toLocaleDateString(NewDate(e.date), c) \o <<",">>
        \o Text(e.category) \o <<",">> \o NumberToString(e.amount.n) \o <<",">>
        \o Quoted(e.description)

\* headers.join(',')
CsvHeader ==
    << "U", "s", "e", "r", ",", "D", "a", "t", "e", ",",
       "C", "a", "t", "e", "g", "o", "r", "y", ",",
       "A", "m", "o", "u", "n", "t", " ", "(", "I", "N", "R", ")", ",",
       "D", "e", "s", "c", "r", "i", "p", "t", "i", "o", "n" >>

\* the lines of csvContent
CsvLines(userName, list, c) ==
    <<CsvHeader>> \o [i \in 1..Len(list) |-> CsvRow(userName, list[i], c)]

UserNames == { <<"A", "s", "h", "a">>, <<"A", "\"", "b">> }

ExportClocks == [month : {2}, year : {2024}, zone : Zones, locale : {"en-US", "en-GB"}]

\* Settings is shown with the session's expenses, none yet
InitExport ==
    /\ InitStores
    /\ arrays = [NoArrays EXCEPT
                    !.budgets = <<Budget("Grocery", 10000), Budget("Transport", 3000)>>]
    /\ clock \in ExportClocks
    /\ view = NoView
    /\ csv = <<>>
    /\ editingExpense = <<>>
    /\ isUpdating = FALSE
    /\ requests = <<>>
    /\ running = <<>>
    /\ arrivals = <<>>

\* handleExportCSV: nothing is written when there are no expenses
HandleExportCSV ==
    /\ \E userName \in UserNames :
        csv' = IF Len(arrays.expenses) = 0 THEN csv
               ELSE CsvLines(userName, arrays.expenses, clock)
    /\ UNCHANGED <<arrays, view>>
    /\ ViewOnly

NextExport == ReceiveExpense \/ HandleExportCSV

SpecExport == InitExport /\ [][NextExport]_vars

-----------------------------------------------------------------------------
(* Dashboard: the edit dialog *)

\* the expenses a fetchState of the user returns from a table
Fetched(exp, user) == fetchState(exp, expense_budgets, user, "ok", "ok").ret.val.expenses

\* what is typed into the amount field
AmountTexts == { <<"-", "5">>, <<"1", "2">>, <<>>, <<"x">> }

\* what the date field gives: a day picked, or '' when it is cleared
DateTexts == {Ymd(2024, 3, 9), EmptyString}

\* x || 0
OrZero(x) == IF x = NaN \/ x = Num(0) THEN Num(0) ELSE x

\* the parent's onUpdateExpense: apiService.updateExpense on the stores, or a
\* promise that rejects
onUpdateExpense(exp, bud, user, id, updates, reply, retryReply, rejects) ==
    IF rejects THEN Outcome(Throw("rejected"), <<>>, exp, bud)
    ELSE updateExpense(exp, bud, user, id, updates, reply, retryReply)

\* handleUpdate goes on past its first line without waiting for isUpdating
Submits_WhileUpdating(editing, updating) == editing # <<>>

\* handleUpdate goes on past `if (!editingExpense || !onUpdateExpense || isUpdating) return;`
Submits(editing, updating) == editing # <<>> /\ ~updating

\* the record kept of a step of the dialog
Did(op, ret) ==
    [op |-> op, user |-> Null, ret |-> ret, ncalls |-> 0, note |-> "", err |-> FALSE]

\* the stores hold a record of the user; the dialog is closed
InitEdit == InitRace

\* neither Settings, the aggregation nor the two calls are part of the step
EditOnly ==
    UNCHANGED <<schema, expense_budgets, isSaving, saveStatus, budgets, inflight,
                timers, arrays, clock, view, csv, running, arrivals>>

\* the edit button of a row of the history: setEditingExpense({...expense})
OpenEdit ==
    /\ editingExpense = <<>>
    /\ \E e \in {Fetched(expenses, "u1")[i] : i \in 1..Len(Fetched(expenses, "u1"))} :
        editingExpense' = <<e>>
    /\ last' = Did("openEdit", "void")
    /\ UNCHANGED <<expenses, isUpdating, requests>>
    /\ EditOnly

\* onChange of the amount field
ChangeAmount ==
    /\ editingExpense # <<>>
    /\ \E value \in AmountTexts :
        editingExpense' =
            <<[editingExpense[1] EXCEPT !.amount = OrZero(parseFloat(Str(value)))]>>
    /\ last' = Did("change", "void")
    /\ UNCHANGED <<expenses, isUpdating, requests>>
    /\ EditOnly

\* onChange of the date field
ChangeDate ==
    /\ editingExpense # <<>>
    /\ \E value \in DateTexts :
        editingExpense' = <<[editingExpense[1] EXCEPT !.date = value]>>
    /\ last' = Did("change", "void")
    /\ UNCHANGED <<expenses, isUpdating, requests>>
    /\ EditOnly

\* the close button, disabled while isUpdating
CloseEdit ==
    /\ editingExpense # <<>>
    /\ ~isUpdating
    /\ editingExpense' = <<>>
    /\ last' = Did("close", "void")
    /\ UNCHANGED <<expenses, isUpdating, requests>>
    /\ EditOnly

\* handleUpdate up to its await: a submit of the form
HandleUpdate ==
    /\ editingExpense # <<>>
    /\ IF Submits(editingExpense, isUpdating)
       THEN /\ isUpdating' = TRUE
            /\ requests' = Append(requests,
                  [ id |-> editingExpense[1].id,
                    updates |-> [ amount |-> editingExpense[1].amount,
                                  description |-> editingExpense[1].description,
                                  category |-> editingExpense[1].category,
                                  date |-> editingExpense[1].date ] ])
            /\ last' = Did("handleUpdate", "pending")
       ELSE /\ UNCHANGED <<isUpdating, requests>>
            /\ last' = Did("handleUpdate", "ignored")
    /\ UNCHANGED <<expenses, editingExpense>>
    /\ EditOnly

\* handleUpdate from its await on: onUpdateExpense settles
HandleUpdateSettles ==
    /\ requests # <<>>
    /\ \E reply \in Replies, retryReply \in Replies, rejects \in BOOLEAN :
       \E o \in {onUpdateExpense(expenses, expense_budgets, "u1", Head(requests).id,
                                 Head(requests).updates, reply, retryReply, rejects)} :
        /\ editingExpense' = IF o.ret.kind = "value" THEN <<>> ELSE editingExpense
        /\ isUpdating' = FALSE
        /\ requests' = Tail(requests)
        /\ expenses' = o.expenses
        /\ last' = Did("handleUpdate", o.ret.kind)
    /\ EditOnly

NextEdit ==
    \/ OpenEdit
    \/ ChangeAmount
    \/ ChangeDate
    \/ CloseEdit
    \/ HandleUpdate
    \/ HandleUpdateSettles

SpecEdit == InitEdit /\ [][NextEdit]_vars

-----------------------------------------------------------------------------
(* Properties.  An operation is judged on what it does from the state at   *)
(* hand, for every input: its Outcome there is the step the model takes.   *)

AmountInputs == {Num(75), Num(0), Num(100)}

\* the column a field of an Expense is written to
Column(f) == IF f = "date" THEN "created_at" ELSE f

Without(u, f) == [g \in DOMAIN u \ {f} |-> u[g]]

HasOwn(user, id) ==
    \E i \in 1..Len(expenses) :
        expenses[i].user_id = user /\ IdToString(expenses[i].id) = id

\* one entry per catalog category, in catalog order, the stored override else the default
BudgetsAsStored(user, list) ==
    /\ Len(list) = Len(DEFAULT_BUDGETS)
    /\ \A i \in 1..Len(DEFAULT_BUDGETS) :
        LET c == DEFAULT_BUDGETS[i].category
            own == {b \in expense_budgets : b.user_id = user /\ b.category = c}
        IN  /\ list[i].category = c
            /\ list[i].limit = IF own = {} THEN DEFAULT_BUDGETS[i].limit
                               ELSE Num((CHOOSE b \in own : TRUE).budget_amount)

\* C1 as claimed: whenever the expense query of an authenticated fetchState
\* succeeds, the budgets returned are the catalog with the stored overrides,
\* whatever the budget query answered.
C1_MergeWheneverExpensesRead ==
    \A user \in Users, budReply \in Replies :
        LET o == fetchState(expenses, expense_budgets, user, "ok", budReply)
        IN  o.ret.kind = "value" /\ BudgetsAsStored(user, o.ret.val.budgets)

\* C1 amended: when the expense query and the budget query of an authenticated
\* fetchState both succeed, the budgets returned have exactly one entry per
\* catalog category, in catalog order, with the stored override of the category
\* if there is one and the catalog default otherwise; when the budget query
\* reports an error the budgets returned are the default catalog.
C1_Merge ==
    \A user \in Users :
        LET o == fetchState(expenses, expense_budgets, user, "ok", "ok")
            e == fetchState(expenses, expense_budgets, user, "ok", "error")
        IN  /\ o.ret.kind = "value" /\ BudgetsAsStored(user, o.ret.val.budgets)
            /\ e.ret.kind = "value" /\ e.ret.val.budgets = DEFAULT_BUDGETS

\* fetchState has read both tables, the user holding an override of a catalog
\* category and a row of a category outside the catalog
C1_Witness ==
    /\ last.op = "fetchState" /\ last.ncalls = 2 /\ ~last.err
    /\ \E b \in expense_budgets : b.user_id \in Users /\ b.category \in CatalogCategories
    /\ \E b \in expense_budgets : b.user_id \in Users /\ b.category \notin CatalogCategories

\* the key the claim has updateExpense try first: the number when the id is the
\* canonical decimal form of an integer, the string otherwise
MostSpecificKey(id) ==
    LET ints == {n \in 0..99 : NumberToString(n) = id}
    IN  IF ints # {} THEN Num(CHOOSE n \in ints : TRUE) ELSE Str(id)

\* C2 as claimed: updateExpense returns the failure signal for an attempt that
\* affected zero rows only after one more request with the other representation
\* of the id; never more than two requests.
C2_RetryWheneverNothingFound ==
    (last.op = "updateExpense" /\ last.user # Null) =>
        /\ last.ncalls \in {1, 2}
        /\ (last.ret = "null" /\ ~last.err) => last.ncalls = 2

\* C2 amended: updateExpense tries the numeric key when the id is the canonical
\* decimal form of an integer and the string otherwise; it sends a second request,
\* with the id as a string and the same payload, exactly when the first one was
\* made with the numeric key and was answered without error and with zero rows;
\* an id tried as a string is not retried; there are never more than two requests,
\* and a retry that finds nothing or fails returns null.
C2_RetryOnce ==
    \A user \in Users, id \in IdInputs :
    \A key \in {MostSpecificKey(id)} :
    \A updates \in PartialUpdates, reply \in Replies, retryReply \in Replies :
        \A o \in {updateExpense(expenses, expense_budgets, user, id, updates,
                               reply, retryReply)} :
        \A none \in {Len(UpdatedRows(expenses, dbUpdates(updates), key, user)) = 0} :
        LET again == reply = "ok" /\ key.t = "num" /\ none
        IN  /\ o.calls[1].arg.id = key
            /\ Len(o.calls) = IF again THEN 2 ELSE 1
            /\ again =>
                  /\ o.calls[2].arg.id = Str(id)
                  /\ o.calls[2].arg.payload = o.calls[1].arg.payload
                  /\ o.ret.kind = "null" <=>
                        \/ retryReply = "error"
                        \/ Len(UpdatedRows(expenses, dbUpdates(updates), Str(id), user)) = 0
            /\ (reply = "ok" /\ key.t = "str" /\ none) => o.ret.kind = "null"

\* updateExpense has found its record with the second request
C2_Witness == last.op = "updateExpense" /\ last.ncalls = 2 /\ last.ret = "value"

ReadOps == {"fetchState"}
WriteOps == {"saveExpense", "updateExpense", "saveBudgets", "deleteBudget", "clearUserData"}

\* C3: an operation that ran without a session sent nothing to the stores and
\* did not throw; a read returned its default value, a write the failure signal.
C3_Unauthenticated ==
    (last.op \in ReadOps \cup WriteOps /\ last.user = Null) =>
        /\ last.ncalls = 0
        /\ last.op \in ReadOps => last.ret = "value"
        /\ last.op \in WriteOps => last.ret = "null"

\* C4: no operation of the layer throws: whatever the session, the arguments and
\* the answers of the stores, it returned a value, void or the failure signal.
C4_NothingThrows ==
    last.op \in ReadOps \cup WriteOps => last.ret \in {"value", "void", "null"}

\* C5: updateExpense on an id that is the id of no record of the calling user
\* returns null and leaves every record of the store as it was.
C5_NoMatchNoChange ==
    \A user \in Users, id \in IdInputs, updates \in PartialUpdates,
       reply \in Replies, retryReply \in Replies :
        ~HasOwn(user, id) =>
            \A o \in {updateExpense(expenses, expense_budgets, user, id, updates,
                                   reply, retryReply)} :
                /\ o.ret = ReturnNull
                /\ o.expenses = expenses
                /\ o.expense_budgets = expense_budgets

\* updateExpense has asked twice, without an error, and found nothing, the user
\* holding records of their own
C5_Witness ==
    /\ last.op = "updateExpense" /\ last.ret = "null" /\ last.ncalls = 2 /\ ~last.err
    /\ \E i \in 1..Len(expenses) : expenses[i].user_id \in Users

\* C6: for an id fetchState shows, updateExpense(id, {amount: X}) returns the
\* record, and a fetchState right after shows that expense with amount X and its
\* category, description and date as before, and every other expense as before.
C6_RoundTrip ==
    \A user \in Users, id \in IdInputs, X \in AmountInputs :
        \A before \in {Fetched(expenses, user)} :
        \A o \in {updateExpense(expenses, expense_budgets, user, id, [amount |-> X],
                                 "ok", "ok")} :
        \A after \in {Fetched(o.expenses, user)} :
            (\E i \in 1..Len(before) : before[i].id = id) =>
                /\ o.ret.kind = "value"
                /\ o.ret.val.id = id /\ o.ret.val.amount = X
                /\ Len(after) = Len(before)
                /\ \A i \in 1..Len(before) :
                    after[i] = IF before[i].id = id THEN [before[i] EXCEPT !.amount = X]
                               ELSE before[i]

\* fetchState has read a table in which a record of the user has the updated
\* amount beside its first category and description, and another has not
C6_Witness ==
    /\ last.op = "fetchState" /\ last.ret = "value" /\ last.ncalls = 2 /\ ~last.err
    /\ \E i, j \in 1..Len(expenses) :
        /\ expenses[i].user_id \in Users /\ expenses[j].user_id \in Users
        /\ expenses[i].amount = 75 /\ expenses[i].category = "Grocery"
        /\ expenses[j].amount = 100

\* C7 as claimed: the payload of updateExpense has exactly the fields present
\* in partialUpdates (date as created_at), and a field that is absent keeps its
\* stored value.
C7_ExactlyThePresentFields ==
    \A user \in Users, id \in IdInputs, updates \in PartialUpdates :
        \A o \in {updateExpense(expenses, expense_budgets, user, id, updates, "ok", "ok")} :
            /\ DOMAIN o.calls[1].arg.payload = {Column(f) : f \in DOMAIN updates}
            /\ \A i \in 1..Len(expenses) :
               \A f \in {"amount", "category", "description", "date"} \ DOMAIN updates :
                    o.expenses[i][Column(f)] = expenses[i][Column(f)]

\* C7 amended: the payload of updateExpense has the fields present in
\* partialUpdates with the values given (date as created_at, in ISO form), except
\* that a date that is empty or not parseable is left out; it has no other
\* field, every request of the call carries it, and a field absent from
\* partialUpdates keeps its stored value in every record.
C7_PresentFieldsOnly ==
    \A user \in Users, id \in IdInputs, updates \in PartialUpdates,
       reply \in Replies, retryReply \in Replies :
        \A o \in {updateExpense(expenses, expense_budgets, user, id, updates,
                               reply, retryReply)} :
        LET p == o.calls[1].arg.payload
            noDate == /\ "date" \in DOMAIN updates
                      /\ updates.date \in {EmptyString, BadDate}
        IN  /\ DOMAIN p = {Column(f) : f \in DOMAIN updates}
                              \ (IF noDate THEN {"created_at"} ELSE {})
            /\ \A f \in DOMAIN updates \ {"date"} : p[f] = updates[f]
            /\ "created_at" \in DOMAIN p =>
                  p.created_at = Iso(updates.date.y, updates.date.m, updates.date.d)
            /\ \A k \in 1..Len(o.calls) : o.calls[k].arg.payload = p
            /\ \A i \in 1..Len(expenses) :
               \A f \in {"amount", "category", "description", "date"} \ DOMAIN updates :
                    o.expenses[i][Column(f)] = expenses[i][Column(f)]

\* updateExpense has written an amount alone and returned the record
C7_Witness ==
    /\ last.op = "updateExpense" /\ last.note = "amount-only"
    /\ last.ret = "value" /\ last.ncalls = 1

\* C8: with a date that is not parseable, updateExpense sends the other fields
\* present and nothing else, does not throw, does what the same call without the
\* date does, and leaves the stored date of every record as it was.
C8_BadDateDropped ==
    \A user \in Users, id \in IdInputs, updates \in PartialUpdates,
       reply \in Replies, retryReply \in Replies :
        ("date" \in DOMAIN updates /\ updates.date = BadDate) =>
            \A o \in {updateExpense(expenses, expense_budgets, user, id, updates,
                                   reply, retryReply)} :
            LET rest == updateExpense(expenses, expense_budgets, user, id,
                                      Without(updates, "date"), reply, retryReply)
            IN  /\ o.ret.kind # "throw"
                /\ \A k \in 1..Len(o.calls) :
                      o.calls[k].arg.payload = Without(updates, "date")
                /\ o = rest
                /\ (HasOwn(user, id) /\ reply = "ok" /\ retryReply = "ok") =>
                      o.ret.kind = "value"
                /\ \A i \in 1..Len(expenses) :
                      o.expenses[i].created_at = expenses[i].created_at

\* updateExpense has been given a date it cannot parse and has returned the record
C8_Witness ==
    last.op = "updateExpense" /\ last.note = "bad-date" /\ last.ret = "value"

\* C9: when the expense query of an authenticated fetchState reports an error,
\* fetchState returns the empty default state, whatever the budget store holds.
C9_FailSoft ==
    \A user \in Users, budReply \in Replies :
        LET o == fetchState(expenses, expense_budgets, user, "error", budReply)
        IN  /\ o.ret = Value([expenses |-> <<>>, budgets |-> DEFAULT_BUDGETS])
            /\ o.expenses = expenses /\ o.expense_budgets = expense_budgets

\* fetchState has stopped at the failed expense query, the user holding overrides
C9_Witness ==
    /\ last.op = "fetchState" /\ last.ncalls = 1 /\ last.err /\ last.ret = "value"
    /\ \E b \in expense_budgets : b.user_id \in Users

\* C10: saveBudgets throws whenever the upsert reports an error, and a save of
\* Settings whose upsert reported an error ends with saveStatus 'error' and
\* isSaving false; it ends with 'success' only when no error was reported.
C10_SaveFailureSurfaces ==
    /\ \A user \in Users, b \in BudgetInputs \cup {budgets} :
        /\ saveBudgets(expenses, expense_budgets, user, b, "error").ret.kind = "throw"
        /\ saveBudgets(expenses, expense_budgets, user, b, "ok").ret.kind = "void"
    /\ (last.op = "handleSave" /\ last.ret # "pending") =>
        /\ ~isSaving
        /\ saveStatus \in {"error", "success"}
        /\ last.note = "upsert-error" => last.ret = "throw" /\ saveStatus = "error"
        /\ saveStatus = "success" => last.note # "upsert-error" /\ ~last.err

\* a save of Settings has ended on an upsert that reported an error
C10_Witness ==
    /\ last.op = "handleSave" /\ last.note = "upsert-error"
    /\ saveStatus = "error" /\ ~isSaving

-----------------------------------------------------------------------------
(* Properties of the aggregation *)

\* category and amount of each expense of a list
CategoryAndAmount(list) ==
    [i \in 1..Len(list) |-> [category |-> list[i].category, amount |-> list[i].amount.n]]

\* Dashboard has rendered budgets [{Grocery,10000},{Transport,3000}] with the
\* expenses [{Grocery,4000},{Grocery,3000},{Transport,5000}], all of the current month
IsScenario ==
    /\ view.rendered
    /\ arrays.budgets = <<Budget("Grocery", 10000), Budget("Transport", 3000)>>
    /\ CategoryAndAmount(arrays.expenses) =
          << [category |-> "Grocery", amount |-> 4000],
             [category |-> "Grocery", amount |-> 3000],
             [category |-> "Transport", amount |-> 5000] >>
    /\ arrays.filteredExpenses = arrays.expenses

Entry(c, limit, spent, remaining, pct) ==
    [ category |-> c, limit |-> Num(limit), spent |-> Num(spent),
      remaining |-> Num(remaining), percentage |-> pct ]

\* a percentage to one decimal, in tenths (166.66... is 1667)
Tenths(r) == (r.num * 20 + r.den) \div (2 * r.den)

ScenarioTotals ==
    /\ view.totalSpent = Num(12000)
    /\ view.totalBudget = Num(13000)
    /\ view.currentBalance = Num(1000)

\* C11 as claimed: in the scenario the totals are 12000, 13000 and 1000 and the
\* breakdown is Transport (5000, -2000, 166.7) followed by Grocery (7000, 3000, 70).
C11_ScenarioTransportFirst ==
    IsScenario =>
        /\ ScenarioTotals
        /\ arrays.categoryBreakdown =
              << Entry("Transport", 3000, 5000, 0 - 2000, Ratio(1667, 10)),
                 Entry("Grocery", 10000, 7000, 3000, Ratio(70, 1)) >>

\* C11 amended: in the scenario totalSpent is 12000, totalBudget 13000 and the
\* balance 1000; the breakdown, sorted by spent descending, is Grocery (spent
\* 7000, remaining 3000, percentage 70) followed by Transport (spent 5000,
\* remaining -2000, percentage 5000/3000*100, unrounded, which is 166.7 to one
\* decimal).
C11_Scenario ==
    IsScenario =>
        /\ ScenarioTotals
        /\ arrays.categoryBreakdown =
              << Entry("Grocery", 10000, 7000, 3000, Ratio(70, 1)),
                 Entry("Transport", 3000, 5000, 0 - 2000, Ratio(500, 3)) >>
        /\ Tenths(arrays.categoryBreakdown[2].percentage) = 1667

\* the scenario has been rendered
C11_Witness == IsScenario /\ Len(arrays.categoryBreakdown) = 2

\* the entries budgets.map makes, before the sort
Mapped(h) ==
    [i \in 1..Len(h.budgets) |-> BreakdownEntry(h.budgets[i], h.filteredExpenses)]

\* C12: the breakdown has as many entries as there are budgets, is sorted by
\* spent descending, and entries with equal spent are in the order of their
\* budgets in the input.
C12_SortedAndStable ==
    \A h \in {Render(arrays, clock).arrays} :
    \A cb \in {h.categoryBreakdown} :
        /\ Len(cb) = Len(arrays.budgets)
        /\ \A i, j \in 1..Len(cb) : i < j => cb[i].spent.n >= cb[j].spent.n
        /\ \A k \in 1..Len(cb) :
              SelectSeq(cb, LAMBDA x : x.spent = cb[k].spent)
                  = SelectSeq(Mapped(h), LAMBDA x : x.spent = cb[k].spent)

\* a rendered breakdown in which the sort moved an entry ahead of two different
\* entries that have the same spent
C12_Witness ==
    /\ view.rendered
    /\ Len(arrays.categoryBreakdown) >= 3
    /\ arrays.categoryBreakdown[1].category # arrays.budgets[1].category
    /\ \E i, j \in 1..Len(arrays.categoryBreakdown) :
          /\ i < j
          /\ arrays.categoryBreakdown[i].spent = arrays.categoryBreakdown[j].spent
          /\ arrays.categoryBreakdown[i].category # arrays.categoryBreakdown[j].category

RECURSIVE SumSpent(_)
SumSpent(cb) ==
    IF cb = <<>> THEN Num(0) ELSE Plus(cb[1].spent, SumSpent(Tail(cb)))

BudgetCategories(list) == {list[i].category : i \in 1..Len(list)}

\* the expenses of the month whose category no budget has
Orphans(h) ==
    SelectSeq(h.filteredExpenses, LAMBDA e : e.category \notin BudgetCategories(h.budgets))

\* C13: with budgets of distinct categories, the spent of the breakdown entries
\* add up to totalSpent less the amounts of the expenses of the month whose
\* category, compared exactly, is in no budget; those expenses count in totalSpent.
C13_OrphansOnlyInTotal ==
    \A r \in {Render(arrays, clock)} :
        Cardinality(BudgetCategories(arrays.budgets)) = Len(arrays.budgets) =>
            /\ r.view.totalSpent = SumAmounts(r.arrays.filteredExpenses)
            /\ SumSpent(r.arrays.categoryBreakdown)
                  = Minus(r.view.totalSpent, SumAmounts(Orphans(r.arrays)))
            /\ \A k \in 1..Len(r.arrays.categoryBreakdown) :
                  r.arrays.categoryBreakdown[k].spent =
                      SumAmounts(SelectSeq(r.arrays.filteredExpenses,
                          LAMBDA e : e.category = r.arrays.categoryBreakdown[k].category))

\* a render with a 'grocery' expense of the month beside a 'Grocery' one, the
\* budgets having only 'Grocery'
C13_Witness ==
    /\ view.rendered
    /\ Cardinality(BudgetCategories(arrays.budgets)) = Len(arrays.budgets)
    /\ "Grocery" \in BudgetCategories(arrays.budgets)
    /\ \E i, j \in 1..Len(arrays.filteredExpenses) :
          /\ arrays.filteredExpenses[i].category = "grocery"
          /\ arrays.filteredExpenses[j].category = "Grocery"
    /\ view.totalSpent # SumSpent(arrays.categoryBreakdown)

\* whether the calendar date written in the date of an expense is of month m
\* (from 0) of year y
DateIsOf(e, m, y) ==
    /\ e.date.k \in {"ymd", "iso"}
    /\ e.date.m - 1 = m
    /\ e.date.y = y

\* C14: after a render, filteredExpenses has exactly the expenses whose date is
\* of the current month and year, in the order of expenses, and filtering it
\* again gives the same list.
C14_FilterByMonth ==
    view.rendered =>
        /\ arrays.filteredExpenses =
              SelectSeq(arrays.expenses, LAMBDA e : DateIsOf(e, clock.month, clock.year))
        /\ filteredExpenses(arrays.filteredExpenses, clock) = arrays.filteredExpenses

\* C16: a render, with the props at hand or with one more expense in the list,
\* leaves the props expenses and budgets as they were, element by element and
\* in order, while the breakdown is sorted and the history reversed
\* in arrays of their own; rendering again with the same props and the same
\* current month gives the same arrays and the same totals.
C16_RenderMutatesNothing ==
    \A props \in {arrays} \cup {[arrays EXCEPT !.expenses = Append(@, e)] :
                                    e \in ShownExpenseInputs} :
    \A r \in {Render(props, clock)} :
        /\ r.arrays.expenses = props.expenses
        /\ r.arrays.budgets = props.budgets
        /\ r.arrays.filteredExpenses = filteredExpenses(props.expenses, clock)
        /\ \A i \in 1..Len(r.arrays.history) :
              r.arrays.history[i] =
                  r.arrays.filteredExpenses[Len(r.arrays.history) + 1 - i]
        /\ Render(r.arrays, clock) = r

\* a render whose sort moved an entry of the breakdown and whose history is not
\* in the order of the expenses
C16_Witness ==
    /\ view.rendered
    /\ Len(arrays.budgets) >= 2
    /\ arrays.categoryBreakdown[1].category # arrays.budgets[1].category
    /\ Len(arrays.history) >= 2
    /\ arrays.history # arrays.filteredExpenses

-----------------------------------------------------------------------------
(* Properties of the concurrent updates *)

\* the record of the signed-in user as the store holds it
TheRecord == CHOOSE r \in {expenses[i] : i \in 1..Len(expenses)} : r.user_id = "u1"

\* the requests, by their place in the order of arrival, that wrote column f of
\* the record: answered without error, with the key the record is stored under
WritesOf(f) ==
    { i \in 1..Len(arrivals) :
        /\ arrivals[i].reply = "ok"
        /\ arrivals[i].key = OwnRow(schema.idKind).id
        /\ f \in DOMAIN arrivals[i].payload }

LastOf(S) == CHOOSE i \in S : \A j \in S : j =< i

\* the value column f has by the last write that included it
LastWritten(f) ==
    IF WritesOf(f) = {} THEN OwnRow(schema.idKind)[f]
    ELSE LET v == arrivals[LastOf(WritesOf(f))].payload[f]
         IN  IF f = "amount" THEN v.n ELSE v

BothDone == Len(running) = 2 /\ \A k \in 1..2 : running[k].pc = "done"

\* C15: two updateExpense calls on one record, their requests reaching the store
\* in any order: no call waits for the other (whatever is in flight can be
\* handled, and the calls stop only when both have returned), each sends at most
\* two requests and returns the record or null, and every column of the record
\* holds the value of the last request, in the order of arrival, that wrote that
\* column, or its first value if none did; the record of the other user is as it was.
C15_LastWriteWins ==
    /\ \A f \in {"amount", "category", "description", "created_at"} :
          TheRecord[f] = LastWritten(f)
    /\ TheRecord.id = OwnRow(schema.idKind).id
    /\ expenses[1] = SeedRow(schema.idKind)
    /\ \A k \in 1..Len(running) :
          /\ running[k].sent =< 2
          /\ running[k].pc \in {"first", "retry"} => ENABLED StoreHandles(k)
          /\ running[k].pc \in {"first-answered", "retry-answered"} =>
                ENABLED UpdateContinues(k)
          /\ running[k].pc = "done" <=> running[k].ret \in {"value", "null"}
    /\ (running # <<>> /\ ~ENABLED NextRace) => BothDone

\* both calls have returned the record after a retry each; the retry of the
\* second call reached the store before the retry of the first, both wrote the
\* amount, with different values, and the record has the one that came last
C15_Witness ==
    /\ BothDone
    /\ \A k \in 1..2 : running[k].ret = "value" /\ running[k].sent = 2
    /\ Len(arrivals) = 4
    /\ arrivals[3].call = 2 /\ arrivals[4].call = 1
    /\ "amount" \in DOMAIN arrivals[3].payload
    /\ "amount" \in DOMAIN arrivals[4].payload
    /\ arrivals[3].payload.amount # arrivals[4].payload.amount
    /\ TheRecord.amount = arrivals[4].payload.amount.n

-----------------------------------------------------------------------------
(* Properties of the export *)

\* the fields of a line of CSV: commas separate fields, a field that begins with
\* a quote runs to its closing quote, a doubled quote inside it being one quote
RECURSIVE CsvFields(_, _, _, _)
CsvFields(s, cur, quoted, done) ==
    IF s = <<>> THEN Append(done, cur)
    ELSE IF quoted
    THEN (IF Head(s) # "\"" THEN CsvFields(Tail(s), Append(cur, Head(s)), TRUE, done)
          ELSE IF Len(s) >= 2 /\ s[2] = "\""
          THEN CsvFields(Tail(Tail(s)), Append(cur, "\""), TRUE, done)
          ELSE CsvFields(Tail(s), cur, FALSE, done))
    ELSE IF Head(s) = "," THEN CsvFields(Tail(s), <<>>, FALSE, Append(done, cur))
    ELSE IF Head(s) = "\"" /\ cur = <<>> THEN CsvFields(Tail(s), cur, TRUE, done)
    ELSE CsvFields(Tail(s), Append(cur, Head(s)), FALSE, done)

\* the row of the example: "Asha",1/5/2024,Food & Drinks,250,"Lunch ""special"""
ExampleRow ==
    << "\"", "A", "s", "h", "a", "\"", ",", "1", "/", "5", "/", "2", "0", "2", "4", ",",
       "F", "o", "o", "d", " ", "&", " ", "D", "r", "i", "n", "k", "s", ",",
       "2", "5", "0", ",",
       "\"", "L", "u", "n", "c", "h", " ", "\"", "\"", "s", "p", "e", "c", "i", "a", "l",
       "\"", "\"", "\"" >>

ExampleExpense ==
    Expense(<<"1">>, 250, "Food & Drinks",
            <<"L", "u", "n", "c", "h", " ", "\"", "s", "p", "e", "c", "i", "a", "l", "\"">>,
            Ymd(2024, 1, 5))

\* the example as a browser in UTC with the en-US locale exports it
ExampleExported == CsvRow(<<"A", "s", "h", "a">>, ExampleExpense, DefaultClock) = ExampleRow

\* C17: every data row of an exported file parses back into five columns, the
\* third the category and the fifth the description of its expense, and the
\* example gives the row stated.
C17_RowsParseBack ==
    /\ ExampleExported
    /\ \A k \in 2..Len(csv) :
        \A fields \in {CsvFields(csv[k], <<>>, FALSE, <<>>)} :
            /\ Len(fields) = 5
            /\ fields[3] = Text(arrays.expenses[k - 1].category)
            /\ fields[5] = arrays.expenses[k - 1].description

-----------------------------------------------------------------------------
(* Properties of the edit dialog *)

\* C18: every expense in the store, and every expense a fetchState returns to
\* the session, has an amount of 0 or more.
C18_AmountsNonNegative ==
    /\ \A i \in 1..Len(expenses) : expenses[i].amount >= 0
    /\ \A user \in Users :
       \A i \in 1..Len(Fetched(expenses, user)) :
          Fetched(expenses, user)[i].amount.n >= 0

\* C19: at most one onUpdateExpense call is awaited at any time and isUpdating is
\* true exactly while one is; a submit while isUpdating sends nothing; when the
\* call settles isUpdating is false again, and the dialog is closed if the result
\* was a record and still open with its draft if it was null or a rejection; the
\* dialog is never closed while the call is awaited.
C19_OneRequestInFlight ==
    /\ Len(requests) =< 1
    /\ isUpdating <=> requests # <<>>
    /\ isUpdating => editingExpense # <<>>
    /\ (last.op = "handleUpdate" /\ last.ret = "ignored") => Len(requests) = 1
    /\ (last.op = "handleUpdate" /\ last.ret \in {"value", "null", "throw"}) =>
          /\ ~isUpdating
          /\ last.ret = "value" <=> editingExpense = <<>>

\* the form has been submitted while a call was awaited
C19_Witness ==
    /\ last.op = "handleUpdate" /\ last.ret = "ignored"
    /\ isUpdating
    /\ Len(requests) = 1

-----------------------------------------------------------------------------
(* Properties of the save status of Settings *)

\* C20: saveStatus shows the latest save attempt: 'error' stays until an input
\* change or the start of another save, and 'success' stays until then or until
\* the reset timer of that same attempt fires; the reset timer of an earlier
\* save (one that fires while saveStatus is 'error', or while a later timer is
\* still pending behind it) leaves the status of the later attempt as it is.
C20_StatusOfLatestAttempt ==
    [][ /\ saveStatus = "error" =>
              \/ saveStatus' = "error"
              \/ last'.op \in {"handleInputChange", "handleSave"}
        /\ saveStatus = "success" =>
              \/ saveStatus' = "success"
              \/ last'.op \in {"handleInputChange", "handleSave"}
              \/ last'.op = "timer" /\ timers = 1 ]_vars

====
